---- MODULE Spec2Model ----
(***************************************************************************)
(* Model of the "balance" budget tracker (src/app.py, src/models.py):      *)
(* the billing-cycle resolver get_current_cycle_start, the request         *)
(* handlers of app.py and the three tables of models.py.                   *)
(*                                                                         *)
(* A date is its proleptic Gregorian ordinal (datetime.date.toordinal()),  *)
(* so date comparison is integer comparison and date + timedelta(days=n)   *)
(* is integer addition; year, month and day are recovered from the ordinal *)
(* the way datetime does it.                                               *)
(***************************************************************************)
EXTENDS Integers, Sequences, FiniteSets, TLC

VARIABLES
    today,      \* datetime.date.today(): the system date
    users,      \* table User: sequence of rows, id = position
    budgets,    \* table MonthlyBudget: sequence of rows, id = position
    txns,       \* table Transaction: sequence of rows, id = position
    session,    \* flask-login current_user: a user id, or 0 when anonymous
    resp,       \* the response to the request just handled
    rday,       \* resolver run: the anchor day given
    rtoday,     \* resolver run: the reference date given
    rstart,     \* resolver run: get_current_cycle_start(rday, rtoday)
    ragain,     \* resolver run: get_current_cycle_start(rday, rstart)
    rnext,      \* resolver run: get_current_cycle_start(rday, rstart + 32)
    rpc         \* resolver run: position

sysvars == <<today, users, budgets, txns, session, resp>>
resvars == <<rday, rtoday, rstart, ragain, rnext, rpc>>
vars == <<today, users, budgets, txns, session, resp,
          rday, rtoday, rstart, ragain, rnext, rpc>>

-----------------------------------------------------------------------------
(* Calendar: calendar.monthrange and datetime.date as the resolver uses    *)
(* them.                                                                   *)

\* calendar.isleap
IsLeap(y) == (y % 4 = 0) /\ ((y % 100 # 0) \/ (y % 400 = 0))

\* calendar.monthrange(y, m)[1]: the number of days of month m of year y
DaysInMonth(y, m) ==
    IF m = 2 THEN (IF IsLeap(y) THEN 29 ELSE 28)
    ELSE IF m \in {4, 6, 9, 11} THEN 30 ELSE 31

\* days of year y before the first of month m
RECURSIVE DaysBeforeMonth(_, _)
DaysBeforeMonth(y, m) ==
    IF m = 1 THEN 0 ELSE DaysBeforeMonth(y, m - 1) + DaysInMonth(y, m - 1)

\* days before January 1st of year y
DaysBeforeYear(y) ==
    LET p == y - 1 IN p * 365 + (p \div 4) - (p \div 100) + (p \div 400)

\* a value that is no date: the ValueError datetime.date(y, m, d) raises
DateError == -1

\* datetime.date(y, m, d), as its ordinal; ValueError when d is no day of the month
MkDate(y, m, d) ==
    IF m \in 1..12 /\ d >= 1 /\ d <= DaysInMonth(y, m)
    THEN DaysBeforeYear(y) + DaysBeforeMonth(y, m) + d
    ELSE DateError

\* the year of the date with ordinal n (datetime._ord2ymd)
YearOf(n) ==
    LET n0   == n - 1
        n400 == n0 \div 146097
        a    == n0 % 146097
        n100 == a \div 36524
        b    == a % 36524
        n4   == b \div 1461
        c    == b % 1461
        n1   == c \div 365
        y    == n400 * 400 + 1 + n100 * 100 + n4 * 4 + n1
    IN  IF n1 = 4 \/ n100 = 4 THEN y - 1 ELSE y

\* the month of the date with ordinal n
RECURSIVE MonthFrom(_, _, _)
MonthFrom(y, m, k) ==
    IF k <= DaysInMonth(y, m) THEN m ELSE MonthFrom(y, m + 1, k - DaysInMonth(y, m))

MonthOf(n) == MonthFrom(YearOf(n), 1, n - DaysBeforeYear(YearOf(n)))

\* the day of the month of the date with ordinal n
DayOf(n) == n - DaysBeforeYear(YearOf(n)) - DaysBeforeMonth(YearOf(n), MonthOf(n))

-----------------------------------------------------------------------------
(* The cycle resolver.                                                     *)

Min(a, b) == IF a <= b THEN a ELSE b

\* get_actual_day(y, m, d): the anchor clamped to the month's length
get_actual_day(y, m, d) == Min(d, DaysInMonth(y, m))

\* faulty variant: the previous month's target day is not clamped again
cycle_start_prev_unclamped(day, t) ==
    LET y == YearOf(t)
        m == MonthOf(t)
        current_target_day == get_actual_day(y, m, day)
    IN  IF DayOf(t) >= current_target_day
        THEN MkDate(y, m, current_target_day)
        ELSE LET last_of_prev_month == MkDate(y, m, 1) - 1
             IN  MkDate(YearOf(last_of_prev_month), MonthOf(last_of_prev_month),
                        current_target_day)

\* faulty variant: the day comparison is strict, so the target day itself rolls back
cycle_start_strict(day, t) ==
    LET y == YearOf(t)
        m == MonthOf(t)
        current_target_day == get_actual_day(y, m, day)
    IN  IF DayOf(t) > current_target_day
        THEN MkDate(y, m, current_target_day)
        ELSE LET last_of_prev_month == MkDate(y, m, 1) - 1
                 py == YearOf(last_of_prev_month)
                 pm == MonthOf(last_of_prev_month)
             IN  MkDate(py, pm, get_actual_day(py, pm, day))

\* get_current_cycle_start(day, today); DateError when datetime.date raises
get_current_cycle_start(day, t) ==
    LET y == YearOf(t)
        m == MonthOf(t)
        current_target_day == get_actual_day(y, m, day)
    IN  IF DayOf(t) >= current_target_day
        THEN MkDate(y, m, current_target_day)
        ELSE LET first_of_this_month == MkDate(y, m, 1)
                 last_of_prev_month  == first_of_this_month - 1
                 py == YearOf(last_of_prev_month)
                 pm == MonthOf(last_of_prev_month)
                 prev_target_day == get_actual_day(py, pm, day)
             IN  MkDate(py, pm, prev_target_day)

\* faulty variant: the reference date is four weeks after the start
next_month_date_28(cycle_start) == cycle_start + 28

\* download_statement: the reference date used to find the end of a cycle
next_month_date(cycle_start) == cycle_start + 32

-----------------------------------------------------------------------------
(* Bounds of the model.                                                    *)

\* number of reference dates a resolver run draws from, starting at RefStart
RefDays == 460

\* first reference date: 1 December 2023, so the window holds a year
\* boundary, the leap February of 2024 and the plain February of 2025
RefStart == MkDate(2023, 12, 1)

\* the system date at start: 30 January 2024, a day before anchor 31's cycle
\* start and two days before anchor 1's
SysStart == MkDate(2024, 1, 30)

\* number of days the system date may advance
ClockDays == 1

\* most rows of the tables MonthlyBudget and Transaction together
MaxRows == 2

\* anchor days a resolver run draws from: the nominal 1..31 and one beyond
\* each end
AnchorDays == 0..32

\* the value of a result not computed yet
None == 0

-----------------------------------------------------------------------------
(* Resolver runs: the resolver applied to a drawn anchor day and reference *)
(* date, then to its own result, then to its result plus 32 days as        *)
(* download_statement does.                                                *)

SysInit ==
    /\ today = SysStart
    /\ users = <<>>
    /\ budgets = <<>>
    /\ txns = <<>>
    /\ session = 0
    /\ resp = [op |-> "none", kind |-> "none"]

ResolverInit ==
    /\ SysInit
    /\ rday \in AnchorDays
    /\ rtoday \in RefStart..(RefStart + RefDays - 1)
    /\ rstart = None
    /\ ragain = None
    /\ rnext = None
    /\ rpc = "start"

\* cycle_start = get_current_cycle_start(day, today)
Resolve ==
    /\ rpc = "start"
    /\ rstart' = get_current_cycle_start(rday, rtoday)
    /\ rpc' = IF rstart' = DateError THEN "failed" ELSE "resolved"
    /\ UNCHANGED <<rday, rtoday, ragain, rnext>>
    /\ UNCHANGED sysvars

\* the cycle start queried as the reference date
ResolveAgain ==
    /\ rpc = "resolved"
    /\ ragain' = get_current_cycle_start(rday, rstart)
    /\ rpc' = "again"
    /\ UNCHANGED <<rday, rtoday, rstart, rnext>>
    /\ UNCHANGED sysvars

\* next_cycle_start = get_current_cycle_start(day, today=cycle_start + 32 days)
ResolveNext ==
    /\ rpc = "again"
    /\ rnext' = get_current_cycle_start(rday, next_month_date(rstart))
    /\ rpc' = "next"
    /\ UNCHANGED <<rday, rtoday, rstart, ragain>>
    /\ UNCHANGED sysvars

ResolverNext == Resolve \/ ResolveAgain \/ ResolveNext

ResolverSpec == ResolverInit /\ [][ResolverNext]_vars

-----------------------------------------------------------------------------
(* Claims about the resolver, checked under ResolverSpec.                  *)

\* the anchor day d clamped to the month of date s
ClampedDay(d, s) == Min(d, DaysInMonth(YearOf(s), MonthOf(s)))

\* s starts a cycle of anchor day d
IsCycleStart(d, s) == DayOf(s) = ClampedDay(d, s)

\* C1: for an anchor day in 1..31 the resolver returns the latest date
\* s <= today whose day-of-month is the anchor clamped to s's own month, and
\* a January reference date with day below the target rolls back to December
\* of the previous year.
C1_ResolverReturnsEnclosingCycleStart ==
    (rpc # "start" /\ rday \in 1..31) =>
        /\ rstart # DateError
        /\ rstart <= rtoday
        /\ IsCycleStart(rday, rstart)
        /\ \A s \in (rstart + 1)..rtoday : ~IsCycleStart(rday, s)
        /\ (MonthOf(rtoday) = 1 /\ DayOf(rtoday) < ClampedDay(rday, rtoday)) =>
               /\ YearOf(rstart) = YearOf(rtoday) - 1
               /\ MonthOf(rstart) = 12

\* C1 witness: anchor 31 on 15 January 2024 resolved to 31 December 2023
C1_Witness ==
    /\ rpc = "resolved"
    /\ rday = 31
    /\ rtoday = MkDate(2024, 1, 15)
    /\ rstart = MkDate(2023, 12, 31)

\* the first day of the calendar month after the month of date s
FirstOfNextMonth(s) ==
    IF MonthOf(s) = 12 THEN MkDate(YearOf(s) + 1, 1, 1)
    ELSE MkDate(YearOf(s), MonthOf(s) + 1, 1)

\* C2: for an anchor day in 1..31 and a cycle start s the resolver produced,
\* n = resolver(d, s + 32 days) is the cycle start of the calendar month after
\* s's month, n > s, every date in [s, n) resolves to s and n resolves to n.
C2_NextCycleTilesCalendar ==
    (rpc = "next" /\ rday \in 1..31) =>
        /\ rnext > rstart
        /\ YearOf(rnext) = YearOf(FirstOfNextMonth(rstart))
        /\ MonthOf(rnext) = MonthOf(FirstOfNextMonth(rstart))
        /\ IsCycleStart(rday, rnext)
        /\ \A t \in rstart..(rnext - 1) : get_current_cycle_start(rday, t) = rstart
        /\ get_current_cycle_start(rday, rnext) = rnext

\* C2 witness: anchor 31, the cycle from 31 January 2024 ends on 29 February
C2_Witness ==
    /\ rpc = "next"
    /\ rday = 31
    /\ rstart = MkDate(2024, 1, 31)
    /\ rnext = MkDate(2024, 2, 29)

\* C9: for an anchor day in 1..31, the resolver applied to its own result
\* returns that result.
C9_ResolverIdempotent ==
    (rpc \in {"again", "next"} /\ rday \in 1..31) => ragain = rstart

\* C9 witness: a clamped cycle start (30 April for anchor 31) resolves to itself
C9_Witness ==
    /\ rpc = "again"
    /\ rday = 31
    /\ rstart = MkDate(2024, 4, 30)
    /\ ragain = MkDate(2024, 4, 30)

-----------------------------------------------------------------------------
(* Form fields.  A field is the sequence of its characters; the empty      *)
(* sequence is a field left empty or missing.                              *)

IsDigit(c) == c \in {"0", "1", "2", "3", "4", "5", "6", "7", "8", "9"}

DigitVal(c) ==
    CASE c = "0" -> 0 [] c = "1" -> 1 [] c = "2" -> 2 [] c = "3" -> 3
      [] c = "4" -> 4 [] c = "5" -> 5 [] c = "6" -> 6 [] c = "7" -> 7
      [] c = "8" -> 8 [] c = "9" -> 9

RECURSIVE DigitsVal(_)
DigitsVal(s) ==
    IF s = <<>> THEN 0
    ELSE DigitsVal(SubSeq(s, 1, Len(s) - 1)) * 10 + DigitVal(s[Len(s)])

\* a decimal literal with an optional sign: [ok, val], ok = FALSE for ValueError
ParseDecimal(s) ==
    LET signed == s # <<>> /\ Head(s) \in {"-", "+"}
        body   == IF signed THEN Tail(s) ELSE s
    IN  IF body # <<>> /\ \A i \in 1..Len(body) : IsDigit(body[i])
        THEN [ok |-> TRUE,
              val |-> IF signed /\ Head(s) = "-" THEN 0 - DigitsVal(body)
                      ELSE DigitsVal(body)]
        ELSE [ok |-> FALSE, val |-> 0]

\* int(billing_cycle)
to_int(s) == ParseDecimal(s)

\* float(salary), float(amount): the fields drawn hold no fraction or exponent
to_float(s) == ParseDecimal(s)

\* the values of the form fields the requests draw from
Usernames == {"a", "b"}
\* the usernames a registration draws from: those taken, and of the free ones
\* the first (which free name is chosen makes no difference to any handler)
RegisterNames ==
    {users[i].username : i \in DOMAIN users}
        \cup (IF \E i \in DOMAIN users : users[i].username = "a"
              THEN Usernames \ {"a"} ELSE {"a"})
RegisterPasswords == {"p"}
LoginPasswords == {"p", "q"}
BillingInputs == {<<"1">>, <<"3", "1">>, <<"0">>, <<"x">>, <<>>}
SalaryInputs == {<<"5", "0">>, <<"x">>}
AmountInputs == {<<"6", "0">>, <<"x">>}
\* a form field that is not sent (a GET request sends no form)
NoField == <<>>
\* year and month of download_statement: absent (0), or a month of the window
StatementArgs == {<<0, 0>>, <<2023, 12>>, <<2024, 1>>}

\* generate_password_hash / check_password_hash
generate_password_hash(pw) == <<"hash", pw>>
check_password_hash(h, pw) == h = <<"hash", pw>>

-----------------------------------------------------------------------------
(* Queries.  A table is the sequence of its rows in insertion order, a     *)
(* row's id its position; first() returns the row with the lowest id.      *)

\* Query.first(): the lowest id of a set of ids, None when empty
First(S) == IF S = {} THEN None ELSE CHOOSE i \in S : \A j \in S : i <= j

\* User.query.filter_by(username=username).first()
user_by_name(username) ==
    First({i \in DOMAIN users : users[i].username = username})

\* MonthlyBudget.query.filter_by(user_id=uid, month_start_date=cycle_start).first()
budget_by_start(uid, cycle_start) ==
    First({i \in DOMAIN budgets : /\ budgets[i].user_id = uid
                                  /\ budgets[i].month_start_date = cycle_start})

\* download_statement: the budget that started in the given calendar month
budget_by_month(uid, year, month) ==
    First({i \in DOMAIN budgets :
              /\ budgets[i].user_id = uid
              /\ YearOf(budgets[i].month_start_date) = year
              /\ MonthOf(budgets[i].month_start_date) = month})

\* sum(t.amount for t in transactions)
RECURSIVE sum_amounts(_)
sum_amounts(rows) ==
    IF rows = <<>> THEN 0 ELSE Head(rows).amount + sum_amounts(Tail(rows))

\* faulty variant: the live view's query does not filter by user
index_transactions_any_user(uid, cycle_start) ==
    SelectSeq(txns, LAMBDA t : t.date >= cycle_start)

\* index: the transactions of the live view.  Rows are kept in insertion
\* order: the display order (order_by) enters no total.  A row's time and
\* description are display-only and are left out.
index_transactions(uid, cycle_start) ==
    SelectSeq(txns, LAMBDA t : t.user_id = uid /\ t.date >= cycle_start)

\* download_statement: the transactions of the statement
statement_transactions(uid, cycle_start, next_cycle_start) ==
    SelectSeq(txns, LAMBDA t : /\ t.user_id = uid
                               /\ t.date >= cycle_start
                               /\ t.date < next_cycle_start)

-----------------------------------------------------------------------------
(* Responses.                                                              *)

Redirect(op, to) == [op |-> op, kind |-> "redirect", to |-> to]
Page(op, template) == [op |-> op, kind |-> "page", template |-> template]
\* a redirect or page carrying a flashed message
Flash(r, message) == [r EXCEPT !.kind = "rejected"] @@ [message |-> message]
\* an exception that leaves the handler: the request fails
Raise(op, why) == [op |-> op, kind |-> "error", why |-> why]

\* login_required: an anonymous request is sent to the login page
Unauthorized(op) == Redirect(op, "login")

\* index, for the logged-in user uid
index_response(uid) ==
    LET cycle_start == get_current_cycle_start(users[uid].salary_credit_day, today)
        budget == budget_by_start(uid, cycle_start)
        transactions == index_transactions(uid, cycle_start)
        total_spent == sum_amounts(transactions)
    IN  IF cycle_start = DateError THEN Raise("index", "date")
        ELSE IF budget = None THEN Redirect("index", "set_budget")
        ELSE [op |-> "index", kind |-> "summary",
              budget |-> budget,
              transactions |-> transactions,
              total_spent |-> total_spent,
              remaining_balance |-> budgets[budget].salary_credited - total_spent,
              cycle_start |-> cycle_start]

\* download_statement: the document for budget row `budget` starting at cycle_start
statement_document(uid, budget, cycle_start) ==
    LET next_cycle_start ==
            get_current_cycle_start(users[uid].salary_credit_day,
                                    next_month_date(cycle_start))
        transactions == statement_transactions(uid, cycle_start, next_cycle_start)
        total_spent == sum_amounts(transactions)
    IN  IF next_cycle_start = DateError THEN Raise("download_statement", "date")
        ELSE [op |-> "download_statement", kind |-> "pdf",
              budget |-> budget,
              transactions |-> transactions,
              total_spent |-> total_spent,
              remaining_balance |-> budgets[budget].salary_credited - total_spent,
              cycle_start |-> cycle_start,
              next_cycle_start |-> next_cycle_start]

\* download_statement, for the logged-in user uid; year = 0 or month = 0 when
\* the argument is absent
download_response(uid, year, month) ==
    IF year # 0 /\ month # 0
    THEN LET budget == budget_by_month(uid, year, month)
         IN  IF budget = None
             THEN Flash(Redirect("download_statement", "index"), "no data for month")
             ELSE statement_document(uid, budget, budgets[budget].month_start_date)
    ELSE LET cycle_start ==
                 get_current_cycle_start(users[uid].salary_credit_day, today)
             budget == budget_by_start(uid, cycle_start)
         IN  IF cycle_start = DateError THEN Raise("download_statement", "date")
             ELSE IF budget = None
             THEN Flash(Redirect("download_statement", "index"),
                        "no data for current cycle")
             ELSE statement_document(uid, budget, cycle_start)

\* faulty variant: a transaction is stamped with the UTC date, a day ahead of the
\* local date late in the day
transaction_date_utc(t) == t + 1

\* add_transaction: date=datetime.date.today()
transaction_date(t) == t

-----------------------------------------------------------------------------
(* The request handlers.  Each action is one request, handled to its      *)
(* response; an exception that leaves a handler keeps what was committed   *)
(* before it.                                                              *)

Init ==
    /\ SysInit
    /\ rday = 8
    /\ rtoday = SysStart
    /\ rstart = None
    /\ ragain = None
    /\ rnext = None
    /\ rpc = "idle"

\* no request is being handled
Idle == resp.kind = "none"

\* GET /
Index ==
    /\ Idle
    /\ resp' = IF session = None THEN Unauthorized("index")
               ELSE index_response(session)
    /\ UNCHANGED <<today, users, budgets, txns, session>>
    /\ UNCHANGED resvars

\* GET or POST /login
Login(method, username, password) ==
    LET user == user_by_name(username)
    IN  /\ Idle
        /\ IF method = "POST"
           THEN IF user # None
                   /\ check_password_hash(users[user].password_hash, password)
                THEN /\ session' = user
                     /\ resp' = Redirect("login", "index")
                ELSE /\ session' = session
                     /\ resp' = Flash(Page("login", "login.html"),
                                      "Invalid username or password")
           ELSE /\ session' = session
                /\ resp' = Page("login", "login.html")
        /\ UNCHANGED <<today, users, budgets, txns>>
        /\ UNCHANGED resvars

\* GET or POST /register
Register(method, username, password, salary, billing_cycle) ==
    LET day == to_int(billing_cycle)
        user == [username |-> username,
                 password_hash |-> generate_password_hash(password),
                 salary_credit_day |-> day.val]
        uid == Len(users) + 1
        cycle_start == get_current_cycle_start(day.val, today)
        credited == to_float(salary)
        budget == [user_id |-> uid, month_start_date |-> cycle_start,
                   salary_credited |-> credited.val]
    IN  /\ Idle
        /\ method = "POST" => username \in RegisterNames
        /\ IF method = "GET"
           THEN /\ resp' = Page("register", "register.html")
                /\ UNCHANGED <<users, budgets, session>>
           ELSE IF user_by_name(username) # None
           THEN /\ resp' = Flash(Redirect("register", "register"),
                                 "Username already exists")
                /\ UNCHANGED <<users, budgets, session>>
           ELSE IF ~day.ok
           THEN /\ resp' = Raise("register", "int")
                /\ UNCHANGED <<users, budgets, session>>
           ELSE \* the user row is committed before the budget is built
                /\ users' = Append(users, user)
                /\ IF cycle_start = DateError
                   THEN /\ resp' = Raise("register", "date")
                        /\ UNCHANGED <<budgets, session>>
                   ELSE IF ~credited.ok
                   THEN /\ resp' = Raise("register", "float")
                        /\ UNCHANGED <<budgets, session>>
                   ELSE /\ Len(budgets) + Len(txns) < MaxRows
                        /\ budgets' = Append(budgets, budget)
                        /\ session' = uid
                        /\ resp' = Redirect("register", "index")
        /\ UNCHANGED <<today, txns>>
        /\ UNCHANGED resvars

\* GET or POST /set_budget
SetBudget(method, salary) ==
    LET cycle_start ==
            get_current_cycle_start(users[session].salary_credit_day, today)
        credited == to_float(salary)
        budget == [user_id |-> session, month_start_date |-> cycle_start,
                   salary_credited |-> credited.val]
    IN  /\ Idle
        /\ IF session = None
           THEN /\ resp' = Unauthorized("set_budget")
                /\ UNCHANGED budgets
           ELSE IF cycle_start = DateError
           THEN /\ resp' = Raise("set_budget", "date")
                /\ UNCHANGED budgets
           ELSE IF method = "GET"
           THEN /\ resp' = Page("set_budget", "set_budget.html")
                                @@ [cycle_start |-> cycle_start]
                /\ UNCHANGED budgets
           ELSE IF ~credited.ok
           THEN /\ resp' = Raise("set_budget", "float")
                /\ UNCHANGED budgets
           ELSE /\ Len(budgets) + Len(txns) < MaxRows
                /\ budgets' = Append(budgets, budget)
                /\ resp' = Redirect("set_budget", "index")
        /\ UNCHANGED <<today, users, txns, session>>
        /\ UNCHANGED resvars

\* POST /add_transaction
AddTransaction(amount) ==
    LET value == to_float(amount)
        new_transaction == [user_id |-> session, amount |-> value.val,
                            date |-> transaction_date(today)]
    IN  /\ Idle
        /\ IF session = None
           THEN /\ resp' = Unauthorized("add_transaction")
                /\ UNCHANGED txns
           ELSE IF ~value.ok
           THEN /\ resp' = Raise("add_transaction", "float")
                /\ UNCHANGED txns
           ELSE /\ Len(budgets) + Len(txns) < MaxRows
                /\ txns' = Append(txns, new_transaction)
                /\ resp' = Redirect("add_transaction", "index")
        /\ UNCHANGED <<today, users, budgets, session>>
        /\ UNCHANGED resvars

\* POST /update_profile
UpdateProfile(billing_cycle) ==
    LET day == to_int(billing_cycle)
    IN  /\ Idle
        /\ IF session = None
           THEN /\ resp' = Unauthorized("update_profile")
                /\ UNCHANGED users
           ELSE IF billing_cycle = <<>>
           THEN /\ resp' = Redirect("update_profile", "index")
                /\ UNCHANGED users
           ELSE IF ~day.ok
           THEN /\ resp' = Raise("update_profile", "int")
                /\ UNCHANGED users
           ELSE /\ users' = [users EXCEPT ![session].salary_credit_day = day.val]
                /\ resp' = Redirect("update_profile", "index")
                             @@ [message |-> "Profile updated successfully"]
        /\ UNCHANGED <<today, budgets, txns, session>>
        /\ UNCHANGED resvars

\* GET /logout
Logout ==
    /\ Idle
    /\ IF session = None
       THEN /\ resp' = Unauthorized("logout")
            /\ session' = session
       ELSE /\ session' = None
            /\ resp' = Redirect("logout", "login")
    /\ UNCHANGED <<today, users, budgets, txns>>
    /\ UNCHANGED resvars

\* GET /download_statement
DownloadStatement(year, month) ==
    /\ Idle
    /\ resp' = IF session = None THEN Unauthorized("download_statement")
               ELSE download_response(session, year, month)
    /\ UNCHANGED <<today, users, budgets, txns, session>>
    /\ UNCHANGED resvars

\* the response is sent and the request ends: requests are handled one at
\* a time
Respond ==
    /\ ~Idle
    /\ resp' = [op |-> "none", kind |-> "none"]
    /\ UNCHANGED <<today, users, budgets, txns, session>>
    /\ UNCHANGED resvars

\* a day passes between two requests
Tick ==
    /\ Idle
    /\ today < SysStart + ClockDays
    /\ today' = today + 1
    /\ UNCHANGED <<users, budgets, txns, session, resp>>
    /\ UNCHANGED resvars

Next ==
    \/ Index
    \/ Login("GET", NoField, NoField)
    \/ \E u \in Usernames, p \in LoginPasswords : Login("POST", u, p)
    \/ Register("GET", NoField, NoField, NoField, NoField)
    \/ \E u \in Usernames, p \in RegisterPasswords,
          s \in SalaryInputs, b \in BillingInputs : Register("POST", u, p, s, b)
    \/ SetBudget("GET", NoField)
    \/ \E s \in SalaryInputs : SetBudget("POST", s)
    \/ \E a \in AmountInputs : AddTransaction(a)
    \/ \E b \in BillingInputs : UpdateProfile(b)
    \/ Logout
    \/ \E a \in StatementArgs : DownloadStatement(a[1], a[2])
    \/ Respond
    \/ Tick

Spec == Init /\ [][Next]_vars

-----------------------------------------------------------------------------
(* Claims about the request handlers, checked under Spec.                  *)

\* the sum of the amounts of the transactions with the ids in S
RECURSIVE SumOfIds(_)
SumOfIds(S) ==
    IF S = {} THEN 0
    ELSE LET i == CHOOSE j \in S : TRUE IN txns[i].amount + SumOfIds(S \ {i})

\* the date range [cycle_start, next_cycle_start) download_statement computes
\* for budget row i, with the anchor day its owner has now
StatementEnd(i) ==
    get_current_cycle_start(users[budgets[i].user_id].salary_credit_day,
                            next_month_date(budgets[i].month_start_date))

\* download_statement can select budget row i: it is the first row of its
\* owner in its calendar month, or the first row of the owner's current cycle
Selectable(i) ==
    LET uid == budgets[i].user_id
        start == budgets[i].month_start_date
    IN  \/ i = budget_by_month(uid, YearOf(start), MonthOf(start))
        \/ /\ start = get_current_cycle_start(users[uid].salary_credit_day, today)
           /\ i = budget_by_start(uid, start)

\* C3: the ranges [cycle_start, next_cycle_start) that download_statement
\* computes for two allocation records of one user with different start dates
\* never overlap, so no transaction date lies in both.
C3_StatementRangesDisjoint ==
    \A i, j \in DOMAIN budgets :
        ( /\ budgets[i].user_id = budgets[j].user_id
          /\ budgets[i].month_start_date < budgets[j].month_start_date
          /\ Selectable(i) /\ Selectable(j)
          /\ StatementEnd(i) # DateError /\ StatementEnd(j) # DateError )
        => StatementEnd(i) <= budgets[j].month_start_date

\* C4: in the live view and in the statement, total_spent is the sum of the
\* amounts of exactly the requesting user's transactions in the selected range
\* (date >= cycle_start; cycle_start <= date < next_cycle_start), and
\* remaining_balance is the allocation's credited amount minus total_spent,
\* not clamped.
C4_TotalsAreOwnTransactionsInRange ==
    /\ resp.kind = "summary" =>
          LET own == {i \in DOMAIN txns : /\ txns[i].user_id = session
                                          /\ txns[i].date >= resp.cycle_start}
          IN  /\ resp.total_spent = SumOfIds(own)
              /\ budgets[resp.budget].user_id = session
              /\ budgets[resp.budget].month_start_date = resp.cycle_start
              /\ resp.remaining_balance =
                     budgets[resp.budget].salary_credited - SumOfIds(own)
    /\ resp.kind = "pdf" =>
          LET own == {i \in DOMAIN txns : /\ txns[i].user_id = session
                                          /\ txns[i].date >= resp.cycle_start
                                          /\ txns[i].date < resp.next_cycle_start}
          IN  /\ resp.total_spent = SumOfIds(own)
              /\ budgets[resp.budget].user_id = session
              /\ budgets[resp.budget].month_start_date = resp.cycle_start
              /\ resp.remaining_balance =
                     budgets[resp.budget].salary_credited - SumOfIds(own)

\* C4 witness: a live view whose spending exceeds the allocation, so the
\* remaining balance is negative
C4_Witness ==
    /\ resp.kind = "summary"
    /\ resp.total_spent > budgets[resp.budget].salary_credited
    /\ resp.remaining_balance < 0

\* an allocation record exists for user uid and the cycle start resolved from
\* today and the user's anchor day
HasCurrentAllocation(uid) ==
    \E i \in DOMAIN budgets :
        /\ budgets[i].user_id = uid
        /\ budgets[i].month_start_date =
               get_current_cycle_start(users[uid].salary_credit_day, today)

\* C5: index renders a summary only when an allocation record exists for the
\* current user's resolved cycle and otherwise redirects to set_budget;
\* download_statement without such a record redirects and produces no
\* document; allocation records are created only by register and set_budget
\* and never modified.
C5_NoAutoRollNoFabricatedBudget ==
    [][ /\ (resp'.op = "index" /\ session # None) =>
              IF HasCurrentAllocation(session)
              THEN resp'.kind = "summary"
              ELSE resp' = Redirect("index", "set_budget")
        /\ (resp'.op = "download_statement" /\ resp'.kind = "pdf") =>
              /\ resp'.budget \in DOMAIN budgets
              /\ budgets[resp'.budget].user_id = session
        /\ budgets' # budgets =>
              /\ resp'.op \in {"register", "set_budget"}
              /\ Len(budgets') = Len(budgets) + 1
              /\ SubSeq(budgets', 1, Len(budgets)) = budgets
      ]_vars

\* C6: there is at most one allocation record per (user, cycle start date).
C6_OneAllocationPerCycle ==
    \A i, j \in DOMAIN budgets :
        ( /\ budgets[i].user_id = budgets[j].user_id
          /\ budgets[i].month_start_date = budgets[j].month_start_date )
        => i = j

\* the request was rejected for a validation error: bad credentials, a
\* username already used, or a malformed numeric field
ValidationRejected(r) ==
    \/ r.op \in {"login", "register"} /\ r.kind = "rejected"
    \/ r.kind = "error" /\ r.why \in {"int", "float"}

\* C7: a request rejected for a validation error adds no user, no allocation
\* and no transaction and changes no existing record.
C7_RejectedRequestChangesNothing ==
    [][ ValidationRejected(resp') =>
            /\ users' = users
            /\ budgets' = budgets
            /\ txns' = txns ]_vars

\* C8: each stored user's anchor day is an integer in 1..31.
C8_AnchorDayInRange ==
    \A i \in DOMAIN users : users[i].salary_credit_day \in 1..31

\* C10: every stored transaction is dated on or before the current date, and
\* for every user the live view and the statement of the current cycle agree:
\* one is rendered exactly when the other is, every transaction the live view
\* selects is dated before the next cycle start, and total_spent and
\* remaining_balance are the same.
C10_LiveViewMatchesStatement ==
    /\ \A i \in DOMAIN txns : txns[i].date <= today
    /\ \A uid \in DOMAIN users :
          LET live == index_response(uid)
              doc  == download_response(uid, 0, 0)
          IN  /\ (live.kind = "summary") = (doc.kind = "pdf")
              /\ live.kind = "summary" =>
                    /\ \A k \in DOMAIN live.transactions :
                           live.transactions[k].date < doc.next_cycle_start
                    /\ live.total_spent = doc.total_spent
                    /\ live.remaining_balance = doc.remaining_balance

\* C10 witness: a user whose live view and statement of the current cycle both
\* count a stored transaction
C10_Witness ==
    \E uid \in DOMAIN users :
        /\ index_response(uid).kind = "summary"
        /\ index_response(uid).total_spent > 0
        /\ download_response(uid, 0, 0).kind = "pdf"
        /\ download_response(uid, 0, 0).total_spent > 0

====
